---- MODULE Spec2Model ----
(***************************************************************************)
(* CRT Hangman (TerminalBased.py): the game loop of play_game, the guess   *)
(* validator get_guess and the frame composer display_game /               *)
(* draw_border_and_content.                                                *)
(*                                                                         *)
(* A Python str is modelled as a sequence of characters; a character is a  *)
(* one-character TLA+ string.  NL is the line feed and ESC the escape      *)
(* character (U+001B), each a single character of the Python string.       *)
(***************************************************************************)
EXTENDS Integers, Sequences, FiniteSets, TLC

NL == "\n"

ESC == "ESC"

(* ------------------------------ configuration --------------------------- *)

\* WORD_LIST, lines 13-17.

WORD_LIST ==
  << <<"P", "Y", "T", "H", "O", "N">>,
     <<"P", "R", "O", "G", "R", "A", "M", "M", "I", "N", "G">>,
     <<"C", "O", "M", "P", "U", "T", "E", "R">>,
     <<"D", "E", "V", "E", "L", "O", "P", "E", "R">>,
     <<"A", "L", "G", "O", "R", "I", "T", "H", "M">>,
     <<"T", "E", "R", "M", "I", "N", "A", "L">>,
     <<"S", "C", "A", "N", "L", "I", "N", "E">>,
     <<"R", "E", "T", "R", "O">>,
     <<"H", "A", "N", "G", "M", "A", "N">>,
     <<"K", "E", "Y", "B", "O", "A", "R", "D">>,
     <<"M", "O", "N", "I", "T", "O", "R">>,
     <<"E", "L", "E", "C", "T", "R", "O", "N", "I", "C">>,
     <<"V", "I", "N", "T", "A", "G", "E">>,
     <<"C", "O", "N", "S", "O", "L", "E">>,
     <<"P", "I", "X", "E", "L">> >>

\* HANGMAN_STAGES, lines 22-93: one triple-quoted string per stage.
HANGMAN_STAGES ==
  << << NL,
        " ", " ", " ", " ", " ", " ", " ", "-", "-", "-", "-", "-", NL,
        " ", " ", " ", " ", " ", " ", " ", "|", " ", " ", " ", "|", NL,
        " ", " ", " ", " ", " ", " ", " ", " ", " ", " ", " ", "|", NL,
        " ", " ", " ", " ", " ", " ", " ", " ", " ", " ", " ", "|", NL,
        " ", " ", " ", " ", " ", " ", " ", " ", " ", " ", " ", "|", NL,
        " ", " ", " ", " ", " ", " ", " ", " ", " ", " ", " ", "|", NL,
        " ", " ", " ", " ", "-", "-", "-", "-", "-", "-", "-", "-", "-", NL,
        " ", " ", " ", " " >>,
     << NL,
        " ", " ", " ", " ", " ", " ", " ", "-", "-", "-", "-", "-", NL,
        " ", " ", " ", " ", " ", " ", " ", "|", " ", " ", " ", "|", NL,
        " ", " ", " ", " ", " ", " ", " ", "O", " ", " ", " ", "|", NL,
        " ", " ", " ", " ", " ", " ", " ", " ", " ", " ", " ", "|", NL,
        " ", " ", " ", " ", " ", " ", " ", " ", " ", " ", " ", "|", NL,
        " ", " ", " ", " ", " ", " ", " ", " ", " ", " ", " ", "|", NL,
        " ", " ", " ", " ", "-", "-", "-", "-", "-", "-", "-", "-", "-", NL,
        " ", " ", " ", " " >>,
     << NL,
        " ", " ", " ", " ", " ", " ", " ", "-", "-", "-", "-", "-", NL,
        " ", " ", " ", " ", " ", " ", " ", "|", " ", " ", " ", "|", NL,
        " ", " ", " ", " ", " ", " ", " ", "O", " ", " ", " ", "|", NL,
        " ", " ", " ", " ", " ", " ", " ", "|", " ", " ", " ", "|", NL,
        " ", " ", " ", " ", " ", " ", " ", " ", " ", " ", " ", "|", NL,
        " ", " ", " ", " ", " ", " ", " ", " ", " ", " ", " ", "|", NL,
        " ", " ", " ", " ", "-", "-", "-", "-", "-", "-", "-", "-", "-", NL,
        " ", " ", " ", " " >>,
     << NL,
        " ", " ", " ", " ", " ", " ", " ", "-", "-", "-", "-", "-", NL,
        " ", " ", " ", " ", " ", " ", " ", "|", " ", " ", " ", "|", NL,
        " ", " ", " ", " ", " ", " ", " ", "O", " ", " ", " ", "|", NL,
        " ", " ", " ", " ", " ", " ", "/", "|", " ", " ", " ", "|", NL,
        " ", " ", " ", " ", " ", " ", " ", " ", " ", " ", " ", "|", NL,
        " ", " ", " ", " ", " ", " ", " ", " ", " ", " ", " ", "|", NL,
        " ", " ", " ", " ", "-", "-", "-", "-", "-", "-", "-", "-", "-", NL,
        " ", " ", " ", " " >>,
     << NL,
        " ", " ", " ", " ", " ", " ", " ", "-", "-", "-", "-", "-", NL,
        " ", " ", " ", " ", " ", " ", " ", "|", " ", " ", " ", "|", NL,
        " ", " ", " ", " ", " ", " ", " ", "O", " ", " ", " ", "|", NL,
        " ", " ", " ", " ", " ", " ", "/", "|", "\\", " ", " ", "|", NL,
        " ", " ", " ", " ", " ", " ", " ", " ", " ", " ", " ", "|", NL,
        " ", " ", " ", " ", " ", " ", " ", " ", " ", " ", " ", "|", NL,
        " ", " ", " ", " ", "-", "-", "-", "-", "-", "-", "-", "-", "-", NL,
        " ", " ", " ", " " >>,
     << NL,
        " ", " ", " ", " ", " ", " ", " ", "-", "-", "-", "-", "-", NL,
        " ", " ", " ", " ", " ", " ", " ", "|", " ", " ", " ", "|", NL,
        " ", " ", " ", " ", " ", " ", " ", "O", " ", " ", " ", "|", NL,
        " ", " ", " ", " ", " ", " ", "/", "|", "\\", " ", " ", "|", NL,
        " ", " ", " ", " ", " ", " ", "/", " ", " ", " ", " ", "|", NL,
        " ", " ", " ", " ", " ", " ", " ", " ", " ", " ", " ", "|", NL,
        " ", " ", " ", " ", "-", "-", "-", "-", "-", "-", "-", "-", "-", NL,
        " ", " ", " ", " " >>,
     << NL,
        " ", " ", " ", " ", " ", " ", " ", "-", "-", "-", "-", "-", NL,
        " ", " ", " ", " ", " ", " ", " ", "|", " ", " ", " ", "|", NL,
        " ", " ", " ", " ", " ", " ", " ", "O", " ", " ", " ", "|", NL,
        " ", " ", " ", " ", " ", " ", "/", "|", "\\", " ", " ", "|", NL,
        " ", " ", " ", " ", " ", " ", "/", " ", "\\", " ", " ", "|", NL,
        " ", " ", " ", " ", " ", " ", " ", " ", " ", " ", " ", "|", NL,
        " ", " ", " ", " ", "-", "-", "-", "-", "-", "-", "-", "-", "-", NL,
        " ", " ", " ", " " >> >>

\* MAX_INCORRECT_GUESSES, line 97.
MAX_INCORRECT_GUESSES == Len(HANGMAN_STAGES) - 1

(* ------------------------------ characters ------------------------------ *)

UPPERCASE ==
  << "A", "B", "C", "D", "E", "F", "G", "H", "I", "J", "K", "L", "M",
     "N", "O", "P", "Q", "R", "S", "T", "U", "V", "W", "X", "Y", "Z" >>

LOWERCASE ==
  << "a", "b", "c", "d", "e", "f", "g", "h", "i", "j", "k", "l", "m",
     "n", "o", "p", "q", "r", "s", "t", "u", "v", "w", "x", "y", "z" >>

DIGITS == << "0", "1", "2", "3", "4", "5", "6", "7", "8", "9" >>

\* U+00DF LATIN SMALL LETTER SHARP S and U+0131 LATIN SMALL LETTER DOTLESS I,
\* each one character.
SHARP_S == "U+00DF"

DOTLESS_I == "U+0131"

Range(s) == { s[i] : i \in DOMAIN s }

IndexOf(c, s) == CHOOSE i \in DOMAIN s : s[i] = c

\* ord(c): the code point by which Python orders one-character strings.
Ord(c) ==
  IF c \in Range(UPPERCASE) THEN 64 + IndexOf(c, UPPERCASE)
  ELSE IF c \in Range(LOWERCASE) THEN 96 + IndexOf(c, LOWERCASE)
  ELSE IF c \in Range(DIGITS) THEN 47 + IndexOf(c, DIGITS)
  ELSE CASE c = NL -> 10
         [] c = ESC -> 27
         [] c = " " -> 32
         [] c = "!" -> 33
         [] c = "'" -> 39
         [] c = "," -> 44
         [] c = "-" -> 45
         [] c = "." -> 46
         [] c = "@" -> 64
         [] c = "[" -> 91
         [] c = "_" -> 95
         [] c = SHARP_S -> 223
         [] c = DOTLESS_I -> 305

\* str.upper() of one character: a string, since it may change the length.
upper_char(c) ==
  IF c \in Range(LOWERCASE) THEN << UPPERCASE[IndexOf(c, LOWERCASE)] >>
  ELSE IF c = SHARP_S THEN << "S", "S" >>
  ELSE IF c = DOTLESS_I THEN << "I" >>
  ELSE << c >>

\* No .lower() at line 287: the reply is compared as typed.
lower_char_as_typed(c) == << c >>

\* str.lower() of one character (of the characters the model reads).
lower_char(c) ==
  IF c \in Range(UPPERCASE) THEN << LOWERCASE[IndexOf(c, UPPERCASE)] >>
  ELSE << c >>

(* ------------------------------- str methods ---------------------------- *)

RECURSIVE upper(_)
upper(s) == IF s = << >> THEN << >> ELSE upper_char(Head(s)) \o upper(Tail(s))

RECURSIVE lower(_)
lower(s) == IF s = << >> THEN << >> ELSE lower_char(Head(s)) \o lower(Tail(s))

\* c * n
Repeat(c, n) == [ i \in 1..n |-> c ]

\* str.ljust(w): pads on the right with spaces, never truncates.
ljust(s, w) == IF Len(s) >= w THEN s ELSE s \o Repeat(" ", w - Len(s))

\* str.split(sep) for a one-character separator: empty pieces are kept.
RECURSIVE split(_, _)
split(s, sep) ==
  IF sep \notin Range(s) THEN << s >>
  ELSE LET i == CHOOSE k \in DOMAIN s : s[k] = sep /\ \A j \in 1..(k - 1) : s[j] # sep
       IN  << SubSeq(s, 1, i - 1) >> \o split(SubSeq(s, i + 1, Len(s)), sep)

IsSpace(c) == c \in { " ", NL }

\* str.strip(): leading and trailing whitespace removed.
RECURSIVE lstrip(_)
lstrip(s) == IF s # << >> /\ IsSpace(Head(s)) THEN lstrip(Tail(s)) ELSE s

RECURSIVE rstrip(_)
rstrip(s) ==
  IF s # << >> /\ IsSpace(s[Len(s)]) THEN rstrip(SubSeq(s, 1, Len(s) - 1)) ELSE s

strip(s) == rstrip(lstrip(s))

\* sep.join(parts)
RECURSIVE join(_, _)
join(sep, parts) ==
  IF parts = << >> THEN << >>
  ELSE IF Len(parts) = 1 THEN parts[1]
  ELSE parts[1] \o sep \o join(sep, Tail(parts))

\* sorted(list(S)) for a set of one-character strings: ascending code points.
RECURSIVE sorted(_)
sorted(S) ==
  IF S = {} THEN << >>
  ELSE LET m == CHOOSE x \in S : \A y \in S : Ord(x) <= Ord(y)
       IN  << << m >> >> \o sorted(S \ {m})

\* str(n) for an integer.
RECURSIVE str_nat(_)
str_nat(n) == IF n < 10 THEN << DIGITS[n + 1] >> ELSE str_nat(n \div 10) \o << DIGITS[(n % 10) + 1] >>

str(n) == IF n < 0 THEN << "-" >> \o str_nat(0 - n) ELSE str_nat(n)

(* --------------------------------- styling ------------------------------ *)

\* colorama's ANSI sequences (import at line 4).
Fore_GREEN == << ESC, "[", "3", "2", "m" >>

Back_BLACK == << ESC, "[", "4", "0", "m" >>

Style_BRIGHT == << ESC, "[", "1", "m" >>

Style_DIM == << ESC, "[", "2", "m" >>

Style_RESET_ALL == << ESC, "[", "0", "m" >>

\* apply_crt_style, lines 108-117.
apply_crt_style(text, bright) ==
  IF bright
  THEN Fore_GREEN \o Back_BLACK \o Style_BRIGHT \o text \o Style_RESET_ALL
  ELSE Fore_GREEN \o Back_BLACK \o Style_DIM \o text \o Style_RESET_ALL

(* --------------------------------- messages ----------------------------- *)

\* Status messages passed to display_game by play_game.
MSG_GUESS_A_LETTER ==
  <<"G", "u", "e", "s", "s", " ", "a", " ", "l", "e", "t", "t", "e", "r", ".">>

MSG_CONGRATULATIONS ==
  <<"C", "O", "N", "G", "R", "A", "T", "U", "L", "A", "T", "I", "O", "N", "S", "!", " ", "Y", "o", "u", " ", "g", "u", "e", "s", "s", "e", "d", " ", "t", "h", "e", " ", "w", "o", "r", "d", "!">>

MSG_ENTER_YOUR_GUESS ==
  <<"E", "n", "t", "e", "r", " ", "y", "o", "u", "r", " ", "g", "u", "e", "s", "s", ".", ".", ".">>

\* f"GAME OVER! The word was '{chosen_word}'."
MSG_GAME_OVER(word) ==
  <<"G", "A", "M", "E", " ", "O", "V", "E", "R", "!", " ", "T", "h", "e", " ", "w", "o", "r", "d", " ", "w", "a", "s", " ", "'">>
  \o word \o <<"'", ".">>

\* f"'{guess}' is not in the word."
MSG_NOT_IN_WORD(g) ==
  << "'", g >> \o <<"'", " ", "i", "s", " ", "n", "o", "t", " ", "i", "n", " ", "t", "h", "e", " ", "w", "o", "r", "d", ".">>

\* f"Good guess! '{guess}' is in the word."
MSG_GOOD_GUESS(g) ==
  <<"G", "o", "o", "d", " ", "g", "u", "e", "s", "s", "!", " ", "'">>
  \o << g >> \o <<"'", " ", "i", "s", " ", "i", "n", " ", "t", "h", "e", " ", "w", "o", "r", "d", ".">>

\* Lines printed by get_guess on a rejection.
MSG_INVALID_INPUT ==
  <<"I", "n", "v", "a", "l", "i", "d", " ", "i", "n", "p", "u", "t", ".", " ", "P", "l", "e", "a", "s", "e", " ", "e", "n", "t", "e", "r", " ", "a", " ", "s", "i", "n", "g", "l", "e", " ", "l", "e", "t", "t", "e", "r", " ", "(", "A", "-", "Z", ")", ".">>

\* f"You already guessed '{guess}'. Try again."
MSG_ALREADY_GUESSED(g) ==
  <<"Y", "o", "u", " ", "a", "l", "r", "e", "a", "d", "y", " ", "g", "u", "e", "s", "s", "e", "d", " ", "'">>
  \o << g >> \o <<"'", ".", " ", "T", "r", "y", " ", "a", "g", "a", "i", "n", ".">>

MSG_BOOT ==
  <<"B", "o", "o", "t", "i", "n", "g", " ", "u", "p", " ", "C", "R", "T", " ", "H", "a", "n", "g", "m", "a", "n", ".", ".", ".">>

MSG_THANKS ==
  <<"T", "h", "a", "n", "k", "s", " ", "f", "o", "r", " ", "p", "l", "a", "y", "i", "n", "g", " ", "C", "R", "T", " ", "H", "a", "n", "g", "m", "a", "n", "!">>

TITLE_TEXT ==
  <<"-", "-", "-", " ", "H", "A", "N", "G", "M", "A", "N", " ", "C", "R", "T", " ", "E", "D", "I", "T", "I", "O", "N", " ", "-", "-", "-">>

LBL_WORD == <<" ", "W", "o", "r", "d", ":", " ">>

LBL_GUESSED ==
  <<" ", "G", "u", "e", "s", "s", "e", "d", " ", "L", "e", "t", "t", "e", "r", "s", ":", " ">>

LBL_LEFT ==
  <<" ", "I", "n", "c", "o", "r", "r", "e", "c", "t", " ", "G", "u", "e", "s", "s", "e", "s", " ", "L", "e", "f", "t", ":", " ">>

LBL_STATUS == <<" ", "S", "t", "a", "t", "u", "s", ":", " ">>

LBL_PROMPT == <<" ", ">", "_", " ">>

YES == <<"y", "e", "s">>

(* ------------------------------ frame composer -------------------------- *)

\* Standard terminal width and height, lines 124-125.
width == 80

height == 24

\* The rows of draw_border_and_content before apply_crt_style wraps them:
\* the top border, "| " + padded line + " |" per content line, the bottom
\* border (lines 129-149).
border_rows(content_lines) ==
  LET padded == [ i \in DOMAIN content_lines |-> ljust(content_lines[i], width - 4) ]
      fill   == IF Len(padded) < height - 2
                THEN [ i \in 1..(height - 2 - Len(padded)) |-> ljust(<< >>, width - 4) ]
                ELSE << >>
      padded_content_lines == padded \o fill
      border == << "+" >> \o Repeat("-", width - 2) \o << "+" >>
  IN  << border >>
      \o [ i \in DOMAIN padded_content_lines |->
             << "|", " " >> \o padded_content_lines[i] \o << " ", "|" >> ]
      \o << border >>

\* draw_border_and_content, lines 119-151: borders dim, content rows bright.
draw_border_and_content(content_lines) ==
  LET rows == border_rows(content_lines)
  IN  [ i \in DOMAIN rows |-> apply_crt_style(rows[i], i \notin { 1, Len(rows) }) ]

\* Lines 170-175 without the test of line 172: every letter is shown.
RECURSIVE display_word_unmasked(_, _)
display_word_unmasked(chosen_word, guessed_letters) ==
  IF chosen_word = << >> THEN << >>
  ELSE << Head(chosen_word), " " >> \o display_word_unmasked(Tail(chosen_word), guessed_letters)

\* The masked word of display_game, lines 170-175 (before .strip()).
RECURSIVE display_word(_, _)
display_word(chosen_word, guessed_letters) ==
  IF chosen_word = << >> THEN << >>
  ELSE (IF Head(chosen_word) \in guessed_letters
        THEN << Head(chosen_word), " " >>
        ELSE << "_", " " >>)
       \o display_word(Tail(chosen_word), guessed_letters)

\* The content list display_game builds, lines 178-200.
content(chosen_word, guessed_letters, incorrect_guesses, message) ==
  LET hangman_art == split(HANGMAN_STAGES[incorrect_guesses + 1], NL)
  IN  << Repeat(" ", 15) \o Style_BRIGHT \o TITLE_TEXT \o Style_RESET_ALL,
         << >> >>
      \o hangman_art
      \o << << >>,
            LBL_WORD \o strip(display_word(chosen_word, guessed_letters)),
            LBL_GUESSED \o join(<< ",", " " >>, sorted(guessed_letters \ { " " })),
            LBL_LEFT \o str(MAX_INCORRECT_GUESSES - incorrect_guesses),
            << >>,
            LBL_STATUS \o message,
            << >>,
            LBL_PROMPT >>

\* display_game, lines 163-212: the lines it prints (both branches of
\* skip_effect print the same lines, one with a delay between them).
display_game(chosen_word, guessed_letters, incorrect_guesses, message) ==
  draw_border_and_content(content(chosen_word, guessed_letters, incorrect_guesses, message))

(* ------------------------------ guess validator ------------------------- *)

None == "None"

\* get_guess without .upper() at line 223.
get_guess_no_upper(line, already_guessed) ==
  LET guess == line
  IN  IF Len(guess) # 1 \/ ~(Ord("A") <= Ord(guess[1]) /\ Ord(guess[1]) <= Ord("Z"))
      THEN [ value |-> None, printed |-> MSG_INVALID_INPUT ]
      ELSE IF guess[1] \in already_guessed
      THEN [ value |-> None, printed |-> MSG_ALREADY_GUESSED(guess[1]) ]
      ELSE [ value |-> guess[1], printed |-> << >> ]

\* get_guess printing the line of 225 at line 229 too.
get_guess_one_message(line, already_guessed) ==
  LET guess == upper(line)
  IN  IF Len(guess) # 1 \/ ~(Ord("A") <= Ord(guess[1]) /\ Ord(guess[1]) <= Ord("Z"))
      THEN [ value |-> None, printed |-> MSG_INVALID_INPUT ]
      ELSE IF guess[1] \in already_guessed
      THEN [ value |-> None, printed |-> MSG_INVALID_INPUT ]
      ELSE [ value |-> guess[1], printed |-> << >> ]

\* get_guess without the test of lines 228-231: a repeated letter is returned.
get_guess_repeats(line, already_guessed) ==
  LET guess == upper(line)
  IN  IF Len(guess) # 1 \/ ~(Ord("A") <= Ord(guess[1]) /\ Ord(guess[1]) <= Ord("Z"))
      THEN [ value |-> None, printed |-> MSG_INVALID_INPUT ]
      ELSE [ value |-> guess[1], printed |-> << >> ]

\* get_guess, lines 216-232, on the line input() returned: the value it
\* returns and the line it prints.
get_guess(line, already_guessed) ==
  LET guess == upper(line)
  IN  IF Len(guess) # 1 \/ ~(Ord("A") <= Ord(guess[1]) /\ Ord(guess[1]) <= Ord("Z"))
      THEN [ value |-> None, printed |-> MSG_INVALID_INPUT ]
      ELSE IF guess[1] \in already_guessed
      THEN [ value |-> None, printed |-> MSG_ALREADY_GUESSED(guess[1]) ]
      ELSE [ value |-> guess[1], printed |-> << >> ]

(* -------------------------------- play_game ----------------------------- *)

VARIABLES
  pc,                 \* the line play_game (or the function under study) is at
  chosen_word,        \* play_game's local chosen_word (None before line 244)
  guessed_letters,    \* play_game's local guessed_letters
  incorrect_guesses,  \* play_game's local incorrect_guesses
  game_over,          \* play_game's local game_over
  guess,              \* play_game's local guess
  raw,                \* the line typed at the last input(), as the terminal echoes
                      \* it below the frame until the screen is cleared
  screen,             \* the display_game call whose frame is on the terminal
  notice,             \* the line printed below the frame since the last clear
  corpus,             \* the module's WORD_LIST, the words random.choice draws from
  raised              \* the exception that ended play_game (None while none has)

vars ==
  << pc, chosen_word, guessed_letters, incorrect_guesses, game_over, guess,
     raw, screen, notice, corpus, raised >>

\* The arguments of a display_game call; its frame is display_game of them.
Call(word, letters, incorrect, message, skip_effect) ==
  [ chosen_word |-> word, guessed_letters |-> letters,
    incorrect_guesses |-> incorrect, message |-> message,
    skip_effect |-> skip_effect ]

\* Line 256 with any() for all(): one guessed letter of the word wins.
Won_any(word, letters) == \E i \in DOMAIN word : word[i] \in letters

\* Line 256: all(letter in guessed_letters for letter in chosen_word).
Won(word, letters) == \A i \in DOMAIN word : word[i] \in letters

\* Line 263 against MAX_INCORRECT_GUESSES - 1: the loss is declared one miss early.
Lost_early(incorrect) == incorrect >= MAX_INCORRECT_GUESSES - 1

\* Line 263 with > for >=: the loss is noticed one miss late.
Lost_late(incorrect) == incorrect > MAX_INCORRECT_GUESSES

\* Line 263: incorrect_guesses >= MAX_INCORRECT_GUESSES.
Lost(incorrect) == incorrect >= MAX_INCORRECT_GUESSES

\* Lines 278-279 with the test inverted: a hit is counted, a miss is not.
count_guess_inverted(incorrect, g, word) ==
  IF g \in Range(word) THEN incorrect + 1 ELSE incorrect

\* Lines 278-279: the counter after an accepted guess g.
count_guess(incorrect, g, word) ==
  IF g \notin Range(word) THEN incorrect + 1 ELSE incorrect

\* Lines 280 and 283: the message reporting the guess.
guess_message(g, word) ==
  IF g \notin Range(word) THEN MSG_NOT_IN_WORD(g) ELSE MSG_GOOD_GUESS(g)

\* The lines the player types at the guess prompt.
GuessLines ==
  { << "r" >>, << "E" >>, << "t" >>, << "O" >>, << "q" >>, << "W" >>,
    << "z" >>, << "J" >>,
    << >>, << "r", "e" >>, << "1" >>, << " " >>, << SHARP_S >> }

\* The lines the player types at the replay prompt.
ReplyLines ==
  { << "y", "e", "s" >>, << "Y", "E", "S" >>, << "Y", "e", "s" >>, << "n", "o" >>, << >>,
    << "y" >>, << "y", "e", "s", " " >> }

Init ==
  /\ pc = "boot"
  /\ chosen_word = None
  /\ guessed_letters = {}
  /\ incorrect_guesses = 0
  /\ game_over = FALSE
  /\ guess = None
  /\ raw = << >>
  /\ screen = << >>
  /\ notice = << >>
  /\ corpus = WORD_LIST
  /\ raised = None

\* Lines 239-241: clear the screen, print the boot line.
Boot ==
  /\ pc = "boot"
  /\ screen' = << >>
  /\ notice' = MSG_BOOT
  /\ raw' = << >>
  /\ pc' = "select"
  /\ UNCHANGED << corpus, raised, chosen_word, guessed_letters, incorrect_guesses, game_over, guess >>

\* Lines 244-252 without the reset of line 246: a later session starts with the
\* counter the previous one ended with.
StartSession_keep_count(i) ==
  /\ pc = "select"
  /\ chosen_word' = corpus[i]
  /\ guessed_letters' = {}
  /\ incorrect_guesses' = IF chosen_word = None THEN 0 ELSE incorrect_guesses
  /\ game_over' = FALSE
  /\ screen' = << Call(corpus[i], {}, incorrect_guesses', MSG_GUESS_A_LETTER, FALSE) >>
  /\ notice' = << >>
  /\ raw' = << >>
  /\ pc' = "check"
  /\ UNCHANGED << corpus, raised, guess >>

\* Lines 244-252: a new session; random.choice picks corpus[i], the
\* state is reset and the first frame of the inner loop is displayed.
StartSession(i) ==
  /\ pc = "select"
  /\ chosen_word' = corpus[i]
  /\ guessed_letters' = {}
  /\ incorrect_guesses' = 0
  /\ game_over' = FALSE
  /\ screen' = << Call(corpus[i], {}, 0, MSG_GUESS_A_LETTER, FALSE) >>
  /\ notice' = << >>
  /\ raw' = << >>
  /\ pc' = "check"
  /\ UNCHANGED << corpus, raised, guess >>

\* Line 252 on a later pass of the inner loop.
ShowState ==
  /\ pc = "show"
  /\ screen' = << Call(chosen_word, guessed_letters, incorrect_guesses,
                       MSG_GUESS_A_LETTER, FALSE) >>
  /\ notice' = << >>
  /\ raw' = << >>
  /\ pc' = "check"
  /\ UNCHANGED << corpus, raised, chosen_word, guessed_letters, incorrect_guesses, game_over, guess >>

\* Lines 256-259: the win test, tried first.
DeclareWon ==
  /\ pc = "check"
  /\ Won(chosen_word, guessed_letters)
  /\ screen' = << Call(chosen_word, guessed_letters, incorrect_guesses,
                       MSG_CONGRATULATIONS, TRUE) >>
  /\ notice' = << >>
  /\ game_over' = TRUE
  /\ raw' = << >>
  /\ pc' = "replay"
  /\ UNCHANGED << corpus, raised, chosen_word, guessed_letters, incorrect_guesses, guess >>

\* Lines 263-266 without game_over = True and break: the game-over frame is
\* displayed and the loop goes on to ask for a guess.
DeclareLost_no_break ==
  /\ pc = "check"
  /\ ~Won(chosen_word, guessed_letters)
  /\ Lost(incorrect_guesses)
  /\ screen' = << Call(chosen_word, guessed_letters, incorrect_guesses,
                       MSG_GAME_OVER(chosen_word), TRUE) >>
  /\ notice' = << >>
  /\ guess' = None
  /\ raw' = << >>
  /\ pc' = "prompt"
  /\ UNCHANGED << corpus, raised, chosen_word, guessed_letters, incorrect_guesses, game_over >>

\* Lines 263-266: the loss test, tried when the win test failed.
DeclareLost ==
  /\ pc = "check"
  /\ ~Won(chosen_word, guessed_letters)
  /\ Lost(incorrect_guesses)
  /\ screen' = << Call(chosen_word, guessed_letters, incorrect_guesses,
                       MSG_GAME_OVER(chosen_word), TRUE) >>
  /\ notice' = << >>
  /\ game_over' = TRUE
  /\ raw' = << >>
  /\ pc' = "replay"
  /\ UNCHANGED << corpus, raised, chosen_word, guessed_letters, incorrect_guesses, guess >>

\* Line 269: neither test held; guess = None and the prompt loop is entered.
AwaitGuess ==
  /\ pc = "check"
  /\ ~Won(chosen_word, guessed_letters)
  /\ ~Lost(incorrect_guesses)
  /\ guess' = None
  /\ pc' = "prompt"
  /\ UNCHANGED << corpus, raised, chosen_word, guessed_letters, incorrect_guesses, game_over, raw,
                  screen, notice >>

\* Line 272 with skip_effect=True, the use display_game's docstring names.
Prompt_instant ==
  /\ pc = "prompt"
  /\ screen' = << Call(chosen_word, guessed_letters, incorrect_guesses,
                       MSG_ENTER_YOUR_GUESS, TRUE) >>
  /\ notice' = << >>
  /\ raw' = << >>
  /\ pc' = "input"
  /\ UNCHANGED << corpus, raised, chosen_word, guessed_letters, incorrect_guesses, game_over, guess >>

\* Line 272: the frame shown before each input.
Prompt ==
  /\ pc = "prompt"
  /\ screen' = << Call(chosen_word, guessed_letters, incorrect_guesses,
                       MSG_ENTER_YOUR_GUESS, FALSE) >>
  /\ notice' = << >>
  /\ raw' = << >>
  /\ pc' = "input"
  /\ UNCHANGED << corpus, raised, chosen_word, guessed_letters, incorrect_guesses, game_over, guess >>

\* A rejected line counted as a miss.
GuessRejected_penalty(line) ==
  /\ pc = "input"
  /\ get_guess(line, guessed_letters).value = None
  /\ guess' = None
  /\ notice' = get_guess(line, guessed_letters).printed
  /\ incorrect_guesses' = incorrect_guesses + 1
  /\ raw' = line
  /\ pc' = "prompt"
  /\ UNCHANGED << corpus, raised, chosen_word, guessed_letters, game_over, screen >>

\* Line 273 when get_guess returns None (lines 224-231): the rejection
\* line is printed and the while loop of line 270 goes round again.
GuessRejected(line) ==
  /\ pc = "input"
  /\ get_guess(line, guessed_letters).value = None
  /\ guess' = None
  /\ notice' = get_guess(line, guessed_letters).printed
  /\ raw' = line
  /\ pc' = "prompt"
  /\ UNCHANGED << corpus, raised, chosen_word, guessed_letters, incorrect_guesses, game_over, screen >>

\* Line 273 when get_guess returns a letter, then lines 275-284: the letter
\* is added, a miss is counted, the hit or miss frame is displayed.
GuessAccepted(line) ==
  /\ pc = "input"
  /\ get_guess(line, guessed_letters).value # None
  /\ guess' = get_guess(line, guessed_letters).value
  /\ guessed_letters' = guessed_letters \cup { guess' }
  /\ incorrect_guesses' = count_guess(incorrect_guesses, guess', chosen_word)
  /\ screen' = << Call(chosen_word, guessed_letters', incorrect_guesses',
                       guess_message(guess', chosen_word), FALSE) >>
  /\ notice' = << >>
  /\ raw' = << >>
  /\ pc' = "show"
  /\ UNCHANGED << corpus, raised, chosen_word, game_over >>

\* Lines 287-289: the replay prompt.
PlayAgain(line) ==
  /\ pc = "replay"
  /\ raw' = line
  /\ pc' = IF lower(line) # YES THEN "bye" ELSE "select"
  /\ UNCHANGED << corpus, raised, chosen_word, guessed_letters, incorrect_guesses, game_over, guess, screen, notice >>

\* Lines 292-294: the closing message.
Bye ==
  /\ pc = "bye"
  /\ screen' = << >>
  /\ notice' = MSG_THANKS
  /\ raw' = << >>
  /\ pc' = "done"
  /\ UNCHANGED << corpus, raised, chosen_word, guessed_letters, incorrect_guesses, game_over, guess >>

\* Lines 223 and 287 at end of input: input() raises EOFError, which nothing
\* catches, so play_game ends by the exception.
EndOfInput ==
  /\ pc \in { "input", "replay" }
  /\ pc' = "crashed"
  /\ raised' = "EOFError"
  /\ UNCHANGED << corpus, chosen_word, guessed_letters, incorrect_guesses, game_over, guess,
                  raw, screen, notice >>

Next ==
  \/ Boot
  \/ \E i \in DOMAIN corpus : StartSession(i)
  \/ ShowState
  \/ DeclareWon
  \/ DeclareLost
  \/ AwaitGuess
  \/ Prompt
  \/ \E line \in GuessLines : GuessRejected(line)
  \/ \E line \in GuessLines : GuessAccepted(line)
  \/ \E line \in ReplyLines : PlayAgain(line)
  \/ Bye
  \/ EndOfInput

Spec == Init /\ [][Next]_vars

(* --------------------------- get_guess on its own ----------------------- *)

\* The longest line tried.
MaxRawLen == 2

\* The characters of the lines tried: letters of both cases at the ends of
\* the alphabet, their neighbours in code point order, a digit, a space and
\* two letters whose upper() is not the letter itself.
RawChars == { "a", "A", "b", "z", "Z", "1", " ", "@", "[", SHARP_S, DOTLESS_I }

RawLines == UNION { [ 1..n -> RawChars ] : n \in 0..MaxRawLen }

AlreadyLetters == { "A", "Z", "I" }

InitValidate ==
  /\ pc = "call"
  /\ raw \in RawLines
  /\ guessed_letters \in SUBSET AlreadyLetters
  /\ chosen_word = None
  /\ incorrect_guesses = 0
  /\ game_over = FALSE
  /\ guess = None
  /\ screen = << >>
  /\ notice = << >>
  /\ corpus = WORD_LIST
  /\ raised = None

\* guess = get_guess(guessed_letters) with raw as the line read.
Validate ==
  /\ pc = "call"
  /\ guess' = get_guess(raw, guessed_letters).value
  /\ notice' = get_guess(raw, guessed_letters).printed
  /\ pc' = "returned"
  /\ UNCHANGED << corpus, raised, chosen_word, guessed_letters, incorrect_guesses, game_over, raw, screen >>

NextValidate == Validate

SpecValidate == InitValidate /\ [][NextValidate]_vars

(* -------------------------- display_game on its own --------------------- *)

\* The longest status message tried.
MaxMsgLen == 75

\* The letters guessed, in the order they are guessed.
GuessOrder == << "Q", "W", "Z", "J", "R", "E", "T", "O" >>

Misses(letters, word) == Cardinality(letters \ Range(word))

\* The states play_game can be in when it calls display_game.
Playable(word, letters) ==
  /\ Misses(letters, word) <= MAX_INCORRECT_GUESSES
  /\ ~(Won(word, letters) /\ Misses(letters, word) = MAX_INCORRECT_GUESSES)

\* The messages play_game passes, and messages of every length up to MaxMsgLen.
FrameMessages(word, letters) ==
  { MSG_GUESS_A_LETTER, MSG_CONGRATULATIONS, MSG_ENTER_YOUR_GUESS, MSG_GAME_OVER(word) }
  \cup { guess_message(g, word) : g \in letters }
  \cup { Repeat("x", n) : n \in 0..MaxMsgLen }

InitFrame ==
  /\ pc = "compose"
  /\ \E i \in DOMAIN WORD_LIST : chosen_word = WORD_LIST[i]
  /\ \E k \in 0..Len(GuessOrder) : guessed_letters = { GuessOrder[j] : j \in 1..k }
  /\ Playable(chosen_word, guessed_letters)
  /\ incorrect_guesses = Misses(guessed_letters, chosen_word)
  /\ game_over = FALSE
  /\ guess = None
  /\ raw = << >>
  /\ screen = << >>
  /\ notice = << >>
  /\ corpus = WORD_LIST
  /\ raised = None

\* display_game(chosen_word, guessed_letters, incorrect_guesses, message, skip_effect).
Compose(message, skip_effect) ==
  /\ pc = "compose"
  /\ screen' = << Call(chosen_word, guessed_letters, incorrect_guesses, message, skip_effect) >>
  /\ pc' = "composed"
  /\ UNCHANGED << corpus, raised, chosen_word, guessed_letters, incorrect_guesses, game_over, guess, raw, notice >>

NextFrame ==
  \E message \in FrameMessages(chosen_word, guessed_letters), skip_effect \in BOOLEAN :
    Compose(message, skip_effect)

SpecFrame == InitFrame /\ [][NextFrame]_vars

\* The frame on the terminal: the lines display_game printed.
Frame == display_game(screen[1].chosen_word, screen[1].guessed_letters,
                      screen[1].incorrect_guesses, screen[1].message)

\* The same frame before apply_crt_style wraps each row.
PlainFrame == border_rows(content(screen[1].chosen_word, screen[1].guessed_letters,
                                  screen[1].incorrect_guesses, screen[1].message))

(* ---------------------- play_game on other word lists ------------------- *)

\* The guess lines of GuessLines and two more letters, so that RETRO has six
\* letters that miss.
MoreGuessLines == GuessLines \cup { << "f" >>, << "X" >> }

\* The word lists tried: none, and the shortest word that can be won and lost.
Corpora == { << >>, << WORD_LIST[8] >>, << WORD_LIST[9] >> }

InitCorpus ==
  /\ pc = "boot"
  /\ chosen_word = None
  /\ guessed_letters = {}
  /\ incorrect_guesses = 0
  /\ game_over = FALSE
  /\ guess = None
  /\ raw = << >>
  /\ screen = << >>
  /\ notice = << >>
  /\ corpus \in Corpora
  /\ raised = None

\* Line 244 on an empty list: random.choice raises IndexError, which nothing catches.
SelectFails ==
  /\ pc = "select"
  /\ corpus = << >>
  /\ pc' = "crashed"
  /\ raised' = "IndexError"
  /\ UNCHANGED << corpus, chosen_word, guessed_letters, incorrect_guesses, game_over,
                  guess, raw, screen, notice >>

NextCorpus ==
  \/ Boot
  \/ \E i \in DOMAIN corpus : StartSession(i)
  \/ SelectFails
  \/ ShowState
  \/ DeclareWon
  \/ DeclareLost
  \/ AwaitGuess
  \/ Prompt
  \/ \E line \in MoreGuessLines : GuessRejected(line)
  \/ \E line \in MoreGuessLines : GuessAccepted(line)
  \/ \E line \in ReplyLines : PlayAgain(line)
  \/ Bye
  \/ EndOfInput

SpecCorpus == InitCorpus /\ [][NextCorpus]_vars

\* play_game run to the end: the program takes its own steps without waiting
\* (the displays and tests of lines 252-272), and the player, while asked,
\* does not type rejected lines for ever.  Nothing obliges the input to go on:
\* it may end at any prompt.
SpecPlayed ==
  /\ InitCorpus
  /\ [][NextCorpus]_vars
  /\ WF_vars(ShowState)
  /\ WF_vars(DeclareWon)
  /\ WF_vars(DeclareLost)
  /\ WF_vars(AwaitGuess)
  /\ WF_vars(Prompt)
  /\ SF_vars(\E line \in MoreGuessLines : GuessAccepted(line))

(* ------------------------------ properties ------------------------------ *)

RETRO == WORD_LIST[8]

HANGMAN == WORD_LIST[9]

\* A step of play_game that applies an accepted guess (lines 273-284).
AcceptStep == pc = "input" /\ pc' = "show"

\* A step that starts a session (lines 244-252).
StartStep == pc = "select" /\ pc' = "check"

\* The terminal shows the congratulations frame / the game-over frame.
ShowsWon == screen # << >> /\ screen[1].message = MSG_CONGRATULATIONS

ShowsLost ==
  screen # << >> /\ chosen_word # None /\ screen[1].message = MSG_GAME_OVER(chosen_word)

\* C1: in every state of play_game 0 <= incorrect_guesses <= MAX_INCORRECT_GUESSES,
\* and every display_game call is given a counter that is an index of
\* HANGMAN_STAGES and leaves a remaining-guesses value between 0 and 6.
C1_CounterInRange ==
  /\ incorrect_guesses \in 0..MAX_INCORRECT_GUESSES
  /\ MAX_INCORRECT_GUESSES = 6
  /\ screen # << >> =>
       /\ screen[1].incorrect_guesses \in 0..(Len(HANGMAN_STAGES) - 1)
       /\ MAX_INCORRECT_GUESSES - screen[1].incorrect_guesses \in 0..6

\* The last stage is displayed: the frame of a sixth miss.
C1_Witness ==
  /\ pc = "show"
  /\ screen # << >>
  /\ screen[1].incorrect_guesses = 6
  /\ incorrect_guesses = 6

\* C2: an accepted guess adds exactly 1 to incorrect_guesses when the letter
\* is not in the chosen word and 0 when it is, however often it occurs; no
\* other step of a session changes the counter, and it never decreases.
C2_CounterStep ==
  [][ /\ AcceptStep =>
           incorrect_guesses' =
             incorrect_guesses
               + (IF \E i \in DOMAIN chosen_word : chosen_word[i] = guess' THEN 0 ELSE 1)
      /\ (~AcceptStep /\ ~StartStep) => incorrect_guesses' = incorrect_guesses
      /\ ~StartStep => incorrect_guesses' >= incorrect_guesses ]_vars

\* After two misses, R, which occurs twice in RETRO, has just been accepted
\* and the counter still reads 2.
C2_Witness ==
  /\ pc = "show"
  /\ chosen_word = RETRO
  /\ guess = "R"
  /\ guessed_letters = { "Q", "W", "R" }
  /\ incorrect_guesses = 2

\* C3: within a session guessed_letters only grows: an accepted guess is a
\* letter of A..Z that was not in the set, the set gains exactly that one
\* element, no step but the start of a session removes an element, and the
\* set is always a subset of A..Z.
C3_LettersGrow ==
  /\ [](guessed_letters \subseteq Range(UPPERCASE))
  /\ [][ /\ AcceptStep =>
              /\ guess' \in Range(UPPERCASE)
              /\ guess' \notin guessed_letters
              /\ guessed_letters' = guessed_letters \cup { guess' }
              /\ Cardinality(guessed_letters') = Cardinality(guessed_letters) + 1
         /\ (~AcceptStep /\ ~StartStep) => guessed_letters' = guessed_letters
         /\ ~StartStep => guessed_letters \subseteq guessed_letters' ]_vars

\* A third letter has been accepted, typed in lower case.
C3_Witness ==
  /\ pc = "show"
  /\ guess = "Z"
  /\ Cardinality(guessed_letters) = 3
  /\ "Z" \in guessed_letters

\* C4: the pass of the inner loop at the tests of lines 256-266 declares the
\* session Won (congratulations frame, loop left) iff every letter of the
\* chosen word is guessed, declares it Lost (game-over frame, loop left) iff
\* the counter equals MAX_INCORRECT_GUESSES and the word is not fully
\* guessed, and otherwise goes on to ask for a guess.
C4_Outcome ==
  [][ pc = "check" =>
        LET all_guessed == Range(chosen_word) \subseteq guessed_letters
            at_limit    == incorrect_guesses = MAX_INCORRECT_GUESSES
        IN  /\ (pc' = "replay" /\ game_over' /\ ShowsWon') <=> all_guessed
            /\ (pc' = "replay" /\ game_over' /\ ShowsLost') <=> (at_limit /\ ~all_guessed)
            /\ (pc' = "prompt" /\ ~game_over' /\ guess' = None)
                 <=> (~all_guessed /\ ~at_limit) ]_vars

\* RETRO has been won with misses on the way.
C4_Witness ==
  /\ pc = "replay"
  /\ game_over
  /\ ShowsWon
  /\ chosen_word = RETRO
  /\ incorrect_guesses = 3

\* C5: once the congratulations or game-over frame of a session is up, no
\* guess is asked for or applied in that session: chosen_word,
\* guessed_letters, incorrect_guesses and game_over stay as they are, and the
\* program only moves on from the replay prompt to a new session or to its end.
C5_TerminalStays ==
  [][ ((ShowsWon \/ ShowsLost) /\ ~StartStep) =>
        /\ game_over /\ game_over'
        /\ UNCHANGED << chosen_word, guessed_letters, incorrect_guesses >>
        /\ pc \in { "replay", "select", "bye" }
        /\ pc' \in { "select", "bye", "done", "crashed" } ]_vars

\* A lost session waiting for its new session after the reply "yes".
C5_Witness ==
  /\ pc = "select"
  /\ game_over
  /\ ShowsLost
  /\ chosen_word = HANGMAN
  /\ incorrect_guesses = 6

\* The outcome the validation rules give a line: the length of the
\* upper-cased line first, then the letter range, then membership.
Reason(line, already_guessed) ==
  LET u == upper(line)
  IN  IF Len(u) # 1 THEN "InvalidLength"
      ELSE IF u[1] \notin Range(UPPERCASE) THEN "NotALetter"
      ELSE IF u[1] \in already_guessed THEN "AlreadyGuessed"
      ELSE "Accepted"

\* C6: get_guess accepts exactly when the upper-cased line is one character
\* of A..Z that is not already guessed, and then returns that letter;
\* otherwise it rejects, the length being tested before the letter range and
\* the range before membership.  "a" with {} is accepted as A, "ab" and "1"
\* are rejected, "A" and "a" with {A} are rejected as already guessed.
C6_Validator ==
  pc = "returned" =>
    LET u == upper(raw)
        r == Reason(raw, guessed_letters)
    IN  /\ (guess # None) <=> (r = "Accepted")
        /\ r = "Accepted" => (guess = u[1] /\ guess \in Range(UPPERCASE) /\ notice = << >>)
        /\ r \in { "InvalidLength", "NotALetter" } => notice = MSG_INVALID_INPUT
        /\ r = "AlreadyGuessed" => notice = MSG_ALREADY_GUESSED(u[1])
        /\ (raw = << "a" >> /\ guessed_letters = {}) => guess = "A"
        /\ raw \in { << "a", "b" >>, << "1" >> } => guess = None
        /\ (raw \in { << "A" >>, << "a" >> } /\ guessed_letters = { "A" }) =>
             (guess = None /\ notice = MSG_ALREADY_GUESSED("A"))
        /\ (raw = << "A", "A" >> /\ "A" \in guessed_letters) => notice = MSG_INVALID_INPUT

\* "a" was typed when A was already guessed, and was rejected.
C6_Witness ==
  /\ pc = "returned"
  /\ raw = << "a" >>
  /\ guessed_letters = { "A" }
  /\ guess = None

\* Lines compared with the line just rejected.
OtherLines == { << >>, << "a", "b" >> } \cup { << c >> : c \in RawChars }

\* C7 as stated: an input rejected for InvalidLength, one rejected for
\* NotALetter and one rejected for AlreadyGuessed are each shown a message
\* different from the other two.
C7_DistinctMessages ==
  (pc = "returned" /\ guess = None) =>
    \A line \in OtherLines, already \in SUBSET AlreadyLetters :
      Reason(line, already) \notin { "Accepted", Reason(raw, guessed_letters) }
        => get_guess(line, already).printed # notice

\* C7 as amended: an input rejected for InvalidLength and one rejected for
\* NotALetter are shown the same message; an input rejected for
\* AlreadyGuessed is shown a message different from it.
C7_TwoMessages ==
  (pc = "returned" /\ guess = None) =>
    /\ Reason(raw, guessed_letters) \in { "InvalidLength", "NotALetter" }
         => notice = MSG_INVALID_INPUT
    /\ \A line \in OtherLines, already \in SUBSET AlreadyLetters :
         /\ ( /\ Reason(line, already) \in { "InvalidLength", "NotALetter" }
              /\ Reason(raw, guessed_letters) \in { "InvalidLength", "NotALetter" } )
              => get_guess(line, already).printed = notice
         /\ ( /\ Reason(line, already) \in { "InvalidLength", "NotALetter" }
              /\ Reason(raw, guessed_letters) = "AlreadyGuessed" )
              => get_guess(line, already).printed # notice

\* "Z" was rejected as already guessed and its message is on the terminal.
C7_Witness ==
  /\ pc = "returned"
  /\ raw = << "Z" >>
  /\ guessed_letters = { "Z" }
  /\ guess = None
  /\ notice = MSG_ALREADY_GUESSED("Z")

\* The lines get_guess can print for a rejection when `letters` are guessed.
RejectionLines(letters) ==
  { MSG_INVALID_INPUT } \cup { MSG_ALREADY_GUESSED(g) : g \in letters }

\* C8: a rejected input leaves chosen_word, guessed_letters and
\* incorrect_guesses unchanged and does not end the session: the loop shows
\* the current frame again with the enter-your-guess message and asks again.
C8_RejectionKeepsState ==
  [][ /\ pc = "input" => pc' \in { "prompt", "show", "crashed" }
      /\ (pc = "input" /\ pc' = "prompt") =>
           /\ UNCHANGED << chosen_word, guessed_letters, incorrect_guesses, game_over >>
           /\ guess' = None
           /\ notice' \in RejectionLines(guessed_letters)
      /\ pc = "prompt" =>
           /\ UNCHANGED << chosen_word, guessed_letters, incorrect_guesses, game_over >>
           /\ guess' = None
           /\ pc' = "input"
           /\ screen' = << Call(chosen_word, guessed_letters, incorrect_guesses,
                                MSG_ENTER_YOUR_GUESS, FALSE) >> ]_vars

\* Q was typed a second time: its rejection is on the terminal, the state is
\* the one before, and the loop is about to show the frame again.
C8_Witness ==
  /\ pc = "prompt"
  /\ notice = MSG_ALREADY_GUESSED("Q")
  /\ chosen_word = RETRO
  /\ guessed_letters = { "Q", "R" }
  /\ incorrect_guesses = 1
  /\ ~game_over

\* Position i of a line lies in an ANSI sequence ESC [ ... m: an ESC at or
\* before i is not yet closed by an "m" before i.
InEscape(s, i) ==
  \E e \in 1..i : s[e] = ESC /\ \A j \in e..(i - 1) : s[j] # "m"

\* The number of characters of a line the terminal shows.
VisibleLen(s) == Cardinality({ i \in DOMAIN s : ~InEscape(s, i) })

\* C9 as stated: for every game state play_game can reach and every message
\* shorter than the interior width (76), the composed frame has exactly 24
\* rows of exactly 80 characters (before apply_crt_style wraps them), the
\* content list has at most 22 lines and no content line exceeds 76 characters.
C9_FrameSize ==
  (pc = "composed" /\ Len(screen[1].message) < width - 4) =>
    LET lines == content(screen[1].chosen_word, screen[1].guessed_letters,
                         screen[1].incorrect_guesses, screen[1].message)
    IN  /\ Len(PlainFrame) = height
        /\ \A i \in DOMAIN PlainFrame : Len(PlainFrame[i]) = width
        /\ Len(lines) <= height - 2
        /\ \A i \in DOMAIN lines : Len(lines[i]) <= width - 4

\* C10 as stated: each of the 24 lines of every composed frame has exactly
\* 80 visible characters, the style sequences not counted, the title line
\* included.
C10_VisibleWidth ==
  screen # << >> =>
    /\ Len(Frame) = height
    /\ \A i \in DOMAIN Frame : VisibleLen(Frame[i]) = width

\* The text of a game-over message before the word it reveals.
GameOverPrefix == MSG_GAME_OVER(<< >>)

IsGameOver(message) ==
  /\ Len(message) >= Len(GameOverPrefix)
  /\ SubSeq(message, 1, Len(GameOverPrefix) - 2) = SubSeq(GameOverPrefix, 1, Len(GameOverPrefix) - 2)

\* The word between the quotes of a game-over message.
RevealedWord(message) == SubSeq(message, Len(GameOverPrefix) - 1, Len(message) - 2)

\* C11: for any chosen word the counter reaches MAX_INCORRECT_GUESSES (6)
\* exactly on the sixth accepted guess that is not in the word and not
\* before; the session is then Lost, and the game-over message reveals
\* exactly the chosen word.
C11_SixthMiss ==
  /\ [](screen # << >> /\ IsGameOver(screen[1].message) =>
          /\ pc \in { "replay", "select", "bye", "crashed" }
          /\ game_over
          /\ incorrect_guesses = 6
          /\ Cardinality({ g \in guessed_letters :
                             \A i \in DOMAIN chosen_word : chosen_word[i] # g }) = 6
          /\ RevealedWord(screen[1].message) = chosen_word)
  /\ [][ /\ AcceptStep =>
              ((incorrect_guesses' = 6)
                 <=> ( /\ \A i \in DOMAIN chosen_word : chosen_word[i] # guess'
                       /\ Cardinality({ g \in guessed_letters :
                            \A i \in DOMAIN chosen_word : chosen_word[i] # g }) = 5 ))
         /\ (pc = "check" /\ incorrect_guesses = 6) =>
              /\ pc' = "replay"
              /\ IsGameOver(screen'[1].message)
         /\ (pc = "check" /\ incorrect_guesses < 6 /\ pc' = "replay") =>
              ~IsGameOver(screen'[1].message) ]_vars

\* HANGMAN lost on Q, W, Z, J, R, E: the game-over frame names HANGMAN.
C11_Witness ==
  /\ pc = "replay"
  /\ chosen_word = HANGMAN
  /\ guessed_letters = { "Q", "W", "Z", "J", "R", "E" }
  /\ incorrect_guesses = 6
  /\ game_over
  /\ IsGameOver(screen[1].message)
  /\ RevealedWord(screen[1].message) = HANGMAN

\* The masked word on the terminal: the " Word: " content line of the frame
\* (the 13th: title, blank, nine lines of art, blank, word) after its label.
MaskedWord ==
  LET line == content(screen[1].chosen_word, screen[1].guessed_letters,
                      screen[1].incorrect_guesses, screen[1].message)[13]
  IN  SubSeq(line, Len(LBL_WORD) + 1, Len(line))

\* C12: after any sequence of accepted guesses the masked word display_game
\* shows has, at each position of the chosen word, the letter itself if it
\* is in guessed_letters and an underscore otherwise, with single spaces
\* between positions; the frame of a session is composed from the session's
\* current word and letters.
C12_MaskedWord ==
  screen # << >> =>
    LET word   == screen[1].chosen_word
        line   == content(word, screen[1].guessed_letters,
                          screen[1].incorrect_guesses, screen[1].message)[13]
        masked == SubSeq(line, Len(LBL_WORD) + 1, Len(line))
    IN  /\ SubSeq(line, 1, Len(LBL_WORD)) = LBL_WORD
        /\ Len(masked) = 2 * Len(word) - 1
        /\ \A i \in 1..Len(word) :
             masked[2 * i - 1] =
               IF word[i] \in screen[1].guessed_letters THEN word[i] ELSE "_"
        /\ \A i \in 1..(Len(word) - 1) : masked[2 * i] = " "
        /\ pc \in { "show", "check", "prompt", "input", "replay" } =>
             /\ word = chosen_word
             /\ screen[1].guessed_letters = guessed_letters
             /\ screen[1].incorrect_guesses = incorrect_guesses

\* RETRO after R and then E: "R E _ R _", no miss counted.
C12_Witness ==
  /\ pc = "show"
  /\ chosen_word = RETRO
  /\ guessed_letters = { "R", "E" }
  /\ guess = "E"
  /\ incorrect_guesses = 0
  /\ MaskedWord = << "R", " ", "E", " ", "_", " ", "R", " ", "_" >>

\* The line is "yes" in some mix of upper and lower case.
YesAnyCase(line) ==
  /\ Len(line) = 3
  /\ line[1] \in { "y", "Y" }
  /\ line[2] \in { "e", "E" }
  /\ line[3] \in { "s", "S" }

\* C13: at the replay prompt a new session starts iff the reply is "yes" in
\* any letter case; it starts with a word of the corpus, an empty
\* guessed_letters and incorrect_guesses = 0 whatever the previous session
\* left; any other reply ends the program after the closing message.
C13_Replay ==
  [][ /\ (pc = "replay" /\ pc' # "crashed") =>
           /\ pc' \in { "select", "bye" }
           /\ (pc' = "select") <=> YesAnyCase(raw')
           /\ UNCHANGED << chosen_word, guessed_letters, incorrect_guesses, screen >>
      /\ pc = "select" =>
           /\ pc' = "check"
           /\ \E i \in DOMAIN WORD_LIST : chosen_word' = WORD_LIST[i]
           /\ guessed_letters' = {}
           /\ incorrect_guesses' = 0
           /\ ~game_over'
           /\ screen' = << Call(chosen_word', {}, 0, MSG_GUESS_A_LETTER, FALSE) >>
      /\ pc = "bye" =>
           /\ pc' = "done"
           /\ screen' = << >>
           /\ notice' = MSG_THANKS ]_vars

\* "YES" was typed after RETRO was won with misses: a new session is about
\* to start from a state that is not the fresh one.
C13_Witness ==
  /\ pc = "select"
  /\ raw = << "Y", "E", "S" >>
  /\ chosen_word = RETRO
  /\ ShowsWon
  /\ incorrect_guesses = 2
  /\ Cardinality(guessed_letters) = 6

\* C14 as stated: the program terminates normally in all paths, the end of
\* the input stream at a guess prompt or at the replay prompt included: it
\* never ends by an error.
C14_NormalExit == pc # "crashed" /\ raised = None

PYTHON == WORD_LIST[1]

\* The frame of the current state with the given message and render mode.
Rendered(message, skip_effect) ==
  screen = << Call(chosen_word, guessed_letters, incorrect_guesses, message, skip_effect) >>

\* C16: on each pass of the inner loop the state is first rendered
\* progressively with "Guess a letter.", then Won/Lost is tested; a terminal
\* pass renders the final message non-progressively and asks for no input;
\* otherwise every request for a guess immediately follows a progressive
\* render with "Enter your guess...", and every accepted guess is followed by
\* exactly one progressive render reporting the hit or the miss before the
\* next pass.  Only the final Won/Lost frames are non-progressive.
C16_RenderOrder ==
  /\ [](/\ pc = "check" => Rendered(MSG_GUESS_A_LETTER, FALSE)
        /\ pc = "input" => Rendered(MSG_ENTER_YOUR_GUESS, FALSE)
        /\ pc = "show" =>
             Rendered(IF \E i \in DOMAIN chosen_word : chosen_word[i] = guess
                      THEN MSG_GOOD_GUESS(guess) ELSE MSG_NOT_IN_WORD(guess), FALSE)
        /\ pc = "replay" =>
             \/ Rendered(MSG_CONGRATULATIONS, TRUE)
             \/ Rendered(MSG_GAME_OVER(chosen_word), TRUE)
        /\ (screen # << >> /\ screen[1].skip_effect) =>
             /\ pc \in { "replay", "select", "bye", "crashed" }
             /\ screen[1].message \in { MSG_CONGRATULATIONS, MSG_GAME_OVER(chosen_word) })
  /\ [][ /\ pc = "show" => pc' = "check"
         /\ pc = "check" => (pc' \in { "replay", "prompt" } /\ raw' = << >>)
         /\ pc = "prompt" => pc' = "input"
         /\ (pc = "check" /\ pc' = "prompt") => screen' = screen ]_vars

\* PYTHON, after a hit and a miss, asks for the next guess.
C16_Witness ==
  /\ pc = "input"
  /\ chosen_word = PYTHON
  /\ guessed_letters = { "T", "Q" }
  /\ incorrect_guesses = 1
  /\ Rendered(MSG_ENTER_YOUR_GUESS, FALSE)

\* C17: in every state of a session, the win condition (every letter of the
\* chosen word is guessed) and the loss condition (incorrect_guesses =
\* MAX_INCORRECT_GUESSES) do not hold together, so testing the win before the
\* loss cannot change the outcome.
C17_WinLossExclusive ==
  chosen_word # None =>
    ~ ( /\ \A i \in DOMAIN chosen_word : chosen_word[i] \in guessed_letters
        /\ incorrect_guesses = MAX_INCORRECT_GUESSES )

\* RETRO at the guess prompt with R, E and T found and five misses: the next
\* accepted guess completes the word or is the sixth miss.
C17_Witness ==
  /\ pc = "input"
  /\ chosen_word = RETRO
  /\ { "R", "E", "T" } \subseteq guessed_letters
  /\ "O" \notin guessed_letters
  /\ Cardinality(guessed_letters) = 8
  /\ incorrect_guesses = MAX_INCORRECT_GUESSES - 1

\* C18: in every state of a session, incorrect_guesses is the number of
\* guessed letters that do not occur in the chosen word.
C18_CounterIsMissCount ==
  chosen_word # None =>
    incorrect_guesses =
      Cardinality({ g \in guessed_letters :
                      \A i \in DOMAIN chosen_word : chosen_word[i] # g })

\* RETRO with one hit and two misses, at the guess prompt.
C18_Witness ==
  /\ pc = "input"
  /\ chosen_word = RETRO
  /\ guessed_letters = { "R", "Q", "W" }
  /\ incorrect_guesses = 2

\* The number of accepted guesses that ends any session on the chosen word:
\* its distinct letters, and the misses short of the last.
GuessBound ==
  Cardinality({ chosen_word[i] : i \in DOMAIN chosen_word }) + MAX_INCORRECT_GUESSES - 1

\* A session never accepts more than GuessBound guesses, and after that many
\* the word is complete or the misses are used up.
C19_Bound ==
  chosen_word # None =>
    /\ Cardinality(guessed_letters) <= GuessBound
    /\ Cardinality(guessed_letters) = GuessBound =>
         \/ \A i \in DOMAIN chosen_word : chosen_word[i] \in guessed_letters
         \/ incorrect_guesses = MAX_INCORRECT_GUESSES

\* C19: every session reaches Won or Lost after at most
\* d + MAX_INCORRECT_GUESSES - 1 accepted guesses (d the number of distinct
\* letters of the word), whenever the player does not type rejected lines for
\* ever.
C19_AlwaysTerminal ==
  /\ []C19_Bound
  /\ [](pc = "check" => <>(pc = "replay"))
====
